---- MODULE Spec2Model ----
(***************************************************************************)
(* Swiper: solver of the Weight Restriction (WR) and Weight Qualification  *)
(* (WQ) problems.  The module models                                       *)
(*   - solver/knapsack.py : knapsack, _knapsack_impl, knapsack_upper_bound *)
(*   - solver/__init__.py : solve, wq_solve, wr_solve and its helpers      *)
(*   - solver/wr.py, wq.py: the two instance records and to_wr             *)
(*   - solver/util.py     : lcm, gcd, rev                                  *)
(*   - main.py            : the integer normalisation and the dispatch     *)
(*                                                                         *)
(* Numbers.  fractions.Fraction is a pair <<numerator, denominator>> in    *)
(* lowest terms with a positive denominator.  A Python int that may exceed *)
(* 64 bits is a pair <<a, b>> standing for a * (2^63 - 1) + b with b small *)
(* ("Big").  A Python float is an exact dyadic number: a sequence of       *)
(* limbs (the digits of an integer N in base 2^24) read as N * 2^-e, every *)
(* operation rounded to 53 significant bits, ties to even, as IEEE-754     *)
(* binary64 does.                                                          *)
(***************************************************************************)
EXTENDS Integers, Sequences, FiniteSets, TLC

(***************************************************************************)
(* Bounds of the explored input space.                                     *)
(***************************************************************************)
MaxN == 2
MaxW == 2
MaxDen == 3
MaxItems == 2
MaxItemValue == 2
MaxCapacity == 3
MaxUpperBound == 2
MaxMainN == 2
MaxNum == 1
MaxWeightDen == 1
MaxScale == 2

(***************************************************************************)
(* A call in progress is a record of its locals; its field pc is the       *)
(* position the call has reached in its code.                              *)
(***************************************************************************)
Pos(call) == call.pc

(***************************************************************************)
(* Integer helpers.                                                        *)
(***************************************************************************)
Abs(x) == IF x < 0 THEN -x ELSE x

Min(a, b) == IF a <= b THEN a ELSE b

RECURSIVE MathGcd(_, _)
MathGcd(a, b) == IF b = 0 THEN Abs(a) ELSE MathGcd(b, a % b)

RECURSIVE SumSeq(_)
SumSeq(s) == IF s = <<>> THEN 0 ELSE Head(s) + SumSeq(Tail(s))

MaxSeq(s) == CHOOSE x \in {s[i] : i \in DOMAIN s} : \A j \in DOMAIN s : s[j] <= x

MaxSet(S) == CHOOSE x \in S : \A y \in S : y <= x

\* a faulty lcm that omits the division by the gcd; C7_ScenarioS1Amended
\* does not hold with it
RECURSIVE lcm_product(_)
lcm_product(xs) == IF xs = <<>> THEN 1
                   ELSE lcm_product(SubSeq(xs, 1, Len(xs) - 1)) * xs[Len(xs)]

\* util.lcm: fold with seed 1
RECURSIVE lcm(_)
lcm(xs) == IF xs = <<>> THEN 1
           ELSE LET res == lcm(SubSeq(xs, 1, Len(xs) - 1))
                    x == xs[Len(xs)]
                IN  (res * x) \div MathGcd(res, x)

\* util.gcd: fold with seed 0
RECURSIVE gcd(_)
gcd(xs) == IF xs = <<>> THEN 0
           ELSE MathGcd(gcd(SubSeq(xs, 1, Len(xs) - 1)), xs[Len(xs)])

\* util.rev: the elements of range(start, stop) in reverse order (step 1)
rev(start, stop) == [i \in 1..(IF stop > start THEN stop - start ELSE 0) |-> stop - i]

(***************************************************************************)
(* fractions.Fraction                                                      *)
(***************************************************************************)
\* n / d in lowest terms with a positive denominator
Reduced(n, d) ==
    LET g == MathGcd(n, d)
        s == IF d < 0 THEN -1 ELSE 1
    IN  <<(s * n) \div g, (s * d) \div g>>

\* Fraction(n, d): numerator and denominator are evaluated once, then reduced
Fraction(n, d) == CHOOSE f \in {Reduced(nn, dd) : nn \in {n}, dd \in {d}} : TRUE

FromInt(n) == <<n, 1>>
FAdd(x, y) == Fraction(x[1] * y[2] + y[1] * x[2], x[2] * y[2])
FSub(x, y) == Fraction(x[1] * y[2] - y[1] * x[2], x[2] * y[2])
FMul(x, y) == Fraction(x[1] * y[1], x[2] * y[2])
FDiv(x, y) == Fraction(x[1] * y[2], x[2] * y[1])
FLt(x, y) == x[1] * y[2] < y[1] * x[2]
FLe(x, y) == x[1] * y[2] <= y[1] * x[2]
FGe(x, y) == FLe(y, x)
floor(x) == x[1] \div x[2]
ceil(x) == -((-x[1]) \div x[2])

(***************************************************************************)
(* Python float (IEEE-754 binary64).  A nonnegative integer of up to 96     *)
(* bits is a sequence of four 24-bit limbs, least significant first; a      *)
(* float is  [neg |-> sign, N |-> limbs, e |-> k]  standing for             *)
(* (+/-) N * 2^-k.  Every operation is exact and then rounded to 53         *)
(* significant bits, ties to even.  Exponent overflow and subnormals do not *)
(* arise for the values of the solver (ratios and sums of integers below    *)
(* 128).                                                                    *)
(***************************************************************************)
LimbBits == 24
NLimbs == 4
Base == 2 ^ LimbBits

RECURSIVE CarrySeq(_, _, _)
\* propagate the carries of a limb sequence whose entries may exceed Base
CarrySeq(f, k, c) ==
    IF k > NLimbs THEN <<>>
    ELSE <<(f[k] + c) % Base>> \o CarrySeq(f, k + 1, (f[k] + c) \div Base)

LZero == [k \in 1..NLimbs |-> 0]

\* n * 2^e for a small nonnegative n
LShlInt(n, e) ==
    CarrySeq([k \in 1..NLimbs |-> IF k = (e \div LimbBits) + 1 THEN n * (2 ^ (e % LimbBits)) ELSE 0], 1, 0)

LAdd(A, B) == CarrySeq([k \in 1..NLimbs |-> A[k] + B[k]], 1, 0)

\* the product with a small nonnegative integer
LMul(A, m) == CarrySeq([k \in 1..NLimbs |-> A[k] * m], 1, 0)

LLt(A, B) == \E k \in 1..NLimbs : A[k] < B[k] /\ \A j \in (k + 1)..NLimbs : A[j] = B[j]

RECURSIVE LDivFrom(_, _, _, _)
\* short division by w, limb k downwards: <<quotient limbs k..1, remainder>>
LDivFrom(D, w, k, rem) ==
    IF k = 0 THEN [q |-> <<>>, r |-> rem]
    ELSE LET cur == rem * Base + D[k]
             low == LDivFrom(D, w, k - 1, cur % w)
         IN  [q |-> low.q \o <<cur \div w>>, r |-> low.r]

\* floor(c * 2^e / w) and the remainder
LDiv(c, w, e) == LDivFrom(LShlInt(c, e), w, NLimbs, 0)

IntBitLen(x) == CHOOSE b \in 0..LimbBits : 2 ^ b > x /\ (b = 0 \/ 2 ^ (b - 1) <= x)

LBitLen(A) ==
    IF A = LZero THEN 0
    ELSE LET top == CHOOSE k \in 1..NLimbs : A[k] # 0 /\ \A j \in (k + 1)..NLimbs : A[j] = 0
         IN  (top - 1) * LimbBits + IntBitLen(A[top])

LBit(A, i) == (A[(i \div LimbBits) + 1] \div (2 ^ (i % LimbBits))) % 2

\* some bit below position i is set
LLowNonzero(A, i) ==
    \E k \in 1..NLimbs :
        /\ (k - 1) * LimbBits < i
        /\ IF k * LimbBits <= i THEN A[k] # 0
           ELSE A[k] % (2 ^ (i - (k - 1) * LimbBits)) # 0

LClearLow(A, d) ==
    [k \in 1..NLimbs |->
        IF k * LimbBits <= d THEN 0
        ELSE IF (k - 1) * LimbBits >= d THEN A[k]
        ELSE A[k] - (A[k] % (2 ^ (d - (k - 1) * LimbBits)))]

\* round to nearest, ties to even, keeping 53 significant bits; sticky says
\* that the exact value has further non-zero bits below bit 0
Round53(A, sticky) ==
    IF LBitLen(A) <= 53 THEN A
    ELSE LET d == LBitLen(A) - 53
             guard == LBit(A, d - 1) = 1
             rest == sticky \/ LLowNonzero(A, d - 1)
             odd == LBit(A, d) = 1
             hi == LClearLow(A, d)
         IN  IF guard /\ (rest \/ odd) THEN LAdd(hi, LShlInt(1, d)) ELSE hi

RECURSIVE LeadShift(_, _, _)
\* the least j >= j0 with c * 2^j >= w
LeadShift(c, w, j) == IF c * (2 ^ j) >= w THEN j ELSE LeadShift(c, w, j + 1)

IntFloat(n) == [neg |-> n < 0, N |-> LShlInt(Abs(n), 0), e |-> 0]

\* int / int (true division), for |c| <= w with equality only when the
\* quotient is an integer; raises ZeroDivisionError when w = 0 (the callers
\* test that before)
FloatDiv(c, w) ==
    IF Abs(c) % w = 0 THEN IntFloat(c \div w)
    ELSE LET e == LeadShift(Abs(c), w, 0) + 53
             d == LDiv(Abs(c), w, e)
         IN  [neg |-> c < 0, N |-> Round53(d.q, d.r # 0), e |-> e]

\* int * float, the int nonnegative
FloatMul(p, f) == [neg |-> f.neg, N |-> Round53(LMul(f.N, p), FALSE), e |-> f.e]

\* int + float, for a nonnegative int and a float of the same sign (or int 0)
FloatAdd(P, f) ==
    IF P = 0 THEN f
    ELSE [neg |-> FALSE, N |-> Round53(LAdd(LShlInt(P, f.e), f.N), FALSE), e |-> f.e]

\* float < Fraction, compared exactly as fractions.Fraction does (the float
\* is converted to the fraction it stands for)
FloatLtFraction(f, x) ==
    IF f.neg
    THEN IF x[1] >= 0 THEN f.N # LZero \/ x[1] > 0
         ELSE LLt(LShlInt(-x[1], f.e), LMul(f.N, x[2]))
    ELSE x[1] > 0 /\ LLt(LMul(f.N, x[2]), LShlInt(x[1], f.e))

(***************************************************************************)
(* Python integers of any size: <<a, b>> stands for a * (2^63 - 1) + b,    *)
(* with |b| far below 2^63, so that the order is lexicographic.            *)
(***************************************************************************)
MAX_INT_64 == <<1, 0>>

Wide(n) == <<0, n>>
WideSeq(xs) == [i \in DOMAIN xs |-> Wide(xs[i])]
WAdd(x, y) == <<x[1] + y[1], x[2] + y[2]>>
WLe(x, y) == x[1] < y[1] \/ (x[1] = y[1] /\ x[2] <= y[2])
WLt(x, y) == x[1] < y[1] \/ (x[1] = y[1] /\ x[2] < y[2])
WMin(x, y) == IF WLe(x, y) THEN x ELSE y

RECURSIVE WSum(_)
WSum(xs) == IF xs = <<>> THEN Wide(0) ELSE WAdd(Head(xs), WSum(Tail(xs)))

(***************************************************************************)
(* solver/knapsack.py                                                      *)
(***************************************************************************)
\* what the model returns where Python raises: max() of an empty list, and
\* a division by zero (every genuine result is >= 0)
ValueError == -1
ZeroDivisionError == [exc |-> "ZeroDivisionError"]

\* one pass of the inner loop "for q in rev(range(upper_bound + 2))": dp is
\* updated in place, in the order of qs
RECURSIVE InnerLoop(_, _, _, _)
InnerLoop(dp, w, p, qs) ==
    IF qs = <<>> THEN dp
    ELSE LET q == Head(qs)
             dp1 == IF p >= q THEN [dp EXCEPT ![q] = WMin(dp[q], w)]
                    ELSE IF dp[q - p] # MAX_INT_64
                         THEN [dp EXCEPT ![q] = WMin(dp[q], WAdd(dp[q - p], w))]
                         ELSE dp
         IN  InnerLoop(dp1, w, p, Tail(qs))

RECURSIVE OuterLoop(_, _, _, _, _)
\* "for i in range(n_nonzero)" over the items of non-zero profit
OuterLoop(dp, weights, profits, items, upper_bound) ==
    IF items = <<>> THEN dp
    ELSE OuterLoop(InnerLoop(dp, weights[Head(items)], profits[Head(items)], rev(0, upper_bound + 2)),
                   weights, profits, Tail(items), upper_bound)

knapsack_impl(weights, profits, capacity, upper_bound) ==
    LET fits == {i \in DOMAIN weights : WLe(weights[i], capacity) /\ profits[i] > upper_bound}
        nonzero_items == SelectSeq([i \in DOMAIN weights |-> i], LAMBDA i : profits[i] > 0)
        dp0 == [q \in 0..(upper_bound + 1) |-> IF q = 0 THEN Wide(0) ELSE MAX_INT_64]
        dp == OuterLoop(dp0, weights, profits, nonzero_items, upper_bound)
        sol == {q \in 0..(upper_bound + 1) : WLe(dp[q], capacity)}
    IN  IF fits # {} THEN profits[CHOOSE i \in fits : \A j \in fits : i <= j]
        ELSE IF sol = {} THEN ValueError
        ELSE MaxSet(sol)

\* whether max() at line 87 gets an empty list, for weights >= 0: dp[0] is 0
\* from line 72 on (line 80 keeps min(0, weight) = 0) and no dp[q] is below
\* 0, so no q passes the filter iff capacity < 0; and no item fits a
\* negative capacity at line 65, so the call then reaches line 87
MaxOfEmpty(capacity) == WLt(capacity, Wide(0))

\* the numba-compiled kernel runs the same code on 64-bit integers; it is
\* called only when every sum fits, so no operation in it wraps
knapsack_jit_int(weights, profits, capacity, upper_bound) ==
    knapsack_impl(weights, profits, capacity, upper_bound)

\* the backend a call of knapsack uses
Backend(weights, profits, capacity, no_jit) ==
    IF no_jit THEN "python"
    ELSE IF \/ WLt(MAX_INT_64, WSum(weights))
            \/ WLt(MAX_INT_64, Wide(SumSeq(profits)))
            \/ WLt(MAX_INT_64, capacity)
         THEN "python-fallback"
         ELSE "jit"

knapsack(weights, profits, capacity, upper_bound, no_jit) ==
    IF Backend(weights, profits, capacity, no_jit) = "jit"
    THEN knapsack_jit_int(weights, profits, capacity, upper_bound)
    ELSE knapsack_impl(weights, profits, capacity, upper_bound)

\* sorted(range(n), key = profits[i] / weights[i], reverse = True): the keys
\* are floats, which compare as the exact ratios do (two different ratios of
\* integers below 2^26 differ by more than a rounding error, equal ratios
\* round to the same float); the sort is stable, so ties keep index order
descending_efficiency_parties(weights, profits) ==
    LET n == Len(weights)
        before(j, i) == \/ profits[j] * weights[i] > profits[i] * weights[j]
                        \/ profits[j] * weights[i] = profits[i] * weights[j] /\ j < i
        rank(i) == Cardinality({j \in 1..n : before(j, i)}) + 1
    IN  [k \in 1..n |-> CHOOSE i \in 1..n : rank(i) = k]

RECURSIVE GreedyLoop(_, _, _, _, _)
\* "for party in descending_efficiency_parties", profit an int until the
\* first party that does not fit adds a float slice
GreedyLoop(weights, profits, parties, capacity, profit) ==
    IF parties = <<>> THEN IntFloat(profit)
    ELSE LET party == Head(parties)
         IN  IF capacity >= weights[party]
             THEN GreedyLoop(weights, profits, Tail(parties), capacity - weights[party],
                             profit + profits[party])
             ELSE FloatAdd(profit, FloatMul(profits[party], FloatDiv(capacity, weights[party])))

\* the sort key profits[i] / weights[i] is computed for every i: it divides
\* by zero as soon as one weight is 0, whatever the profits
ZeroWeight(weights) == \E i \in DOMAIN weights : weights[i] = 0

knapsack_upper_bound(weights, profits, capacity) ==
    IF ZeroWeight(weights) THEN ZeroDivisionError
    ELSE GreedyLoop(weights, profits, descending_efficiency_parties(weights, profits), capacity, 0)

(***************************************************************************)
(* solver/wr.py, solver/wq.py: the instance records                        *)
(***************************************************************************)
Instance(kind, weights, tw, tn) ==
    [kind |-> kind,
     n |-> Len(weights),
     weights |-> weights,
     total_weight |-> SumSeq(weights),
     threshold_weight |-> FMul(tw, FromInt(SumSeq(weights))),
     tw |-> tw,
     tn |-> tn]

WeightRestriction(weights, tw, tn) == Instance("WR", weights, tw, tn)

WeightQualification(weights, tw, tn) == Instance("WQ", weights, tw, tn)

to_wr(inst) ==
    WeightRestriction(inst.weights, FSub(FromInt(1), inst.tw), FSub(FromInt(1), inst.tn))

(***************************************************************************)
(* solver/__init__.py: helpers of wr_solve                                 *)
(***************************************************************************)
wr_upper_bound_s(inst) ==
    FDiv(FMul(FMul(inst.tn, FSub(FromInt(1), inst.tw)), FromInt(inst.n)),
         FMul(FSub(inst.tn, inst.tw), FromInt(inst.total_weight)))

wr_solution_upper_bound(inst) ==
    ceil(FMul(FDiv(FMul(inst.tw, FSub(FromInt(1), inst.tw)), FSub(inst.tn, inst.tw)),
              FromInt(inst.n)))

allocate(inst, s, shift) ==
    [i \in 1..inst.n |-> floor(FAdd(FMul(FromInt(inst.weights[i]), s), shift))]

\* a faulty eps, twice as large, that ends Phase 1 too early;
\* C10_BorderInvariant does not hold with it
eps_doubled(inst) == Fraction(2, MaxSeq(inst.weights))

\* the locals of wr_solve set at lines 55-59
shift(inst) == inst.tw
eps(inst) == Fraction(1, MaxSeq(inst.weights))
threshold_weight_non_strict(inst) == ceil(inst.threshold_weight) - 1

\* the exact oracle as wr_solve and wr_solution_valid call it
knapsack_res(inst, t, no_jit) ==
    knapsack(WideSeq(inst.weights), t, Wide(ceil(inst.threshold_weight) - 1),
             floor(FMul(FromInt(SumSeq(t)), inst.tn)) + 1, no_jit)

\* wr_solution_valid: the call is left by the ValueError of knapsack, or
\* returns whether knapsack_res < inst.tn * sum(t)
wr_solution_valid(inst, t, no_jit) ==
    LET r == knapsack_res(inst, t, no_jit)
    IN  IF r = ValueError THEN [pc |-> "raised", exc |-> "ValueError"]
        ELSE [pc |-> "returned",
              value |-> FLt(FromInt(r), FMul(inst.tn, FromInt(SumSeq(t))))]

\* the verdict of the coarse phases: "ZeroDivisionError", or whether
\* knapsack_upper_bound(...) < tn * sum(t)
UpperBoundVerdict(inst, t) ==
    LET ub == knapsack_upper_bound(inst.weights, t, threshold_weight_non_strict(inst))
    IN  IF "exc" \in DOMAIN ub THEN ub.exc
        ELSE IF FloatLtFraction(ub, FMul(inst.tn, FromInt(SumSeq(t)))) THEN "lt" ELSE "ge"

\* the verdict of the exact phases: "ValueError", or whether
\* knapsack(...) < tn * sum(t)
ExactVerdict(inst, t, no_jit) ==
    LET r == knapsack_res(inst, t, no_jit)
    IN  IF r = ValueError THEN "ValueError"
        ELSE IF FLt(FromInt(r), FMul(inst.tn, FromInt(SumSeq(t)))) THEN "lt" ELSE "ge"

\* t_mid of Phase 2: t_low on border_set[k:], t_high elsewhere
Cut(t_low, t_high, border_set, k) ==
    [i \in DOMAIN t_low |->
        IF \E j \in (k + 1)..Len(border_set) : border_set[j] = i THEN t_low[i] ELSE t_high[i]]

(***************************************************************************)
(* wr_solve, one operator per straight-line block or loop iteration.  The  *)
(* record st holds the locals s_low, s_high, speed, t_low, t_high,         *)
(* border_set, k_low, k_high, t_best (None while unassigned), the position *)
(* pc and, at pc = "error", the exception that ended the call.             *)
(***************************************************************************)
None == "None"

Raise(st, e) == [st EXCEPT !.pc = "error", !.err = e]

\* lines 53-62
Enter(inst) ==
    [pc |-> "bound", err |-> "",
     s_high |-> wr_upper_bound_s(inst), s_low |-> FromInt(0), speed |-> None,
     t_low |-> None, t_high |-> None, border_set |-> None,
     k_low |-> None, k_high |-> None, t_best |-> None]

\* lines 64-66
VerifyBound(inst, st, no_jit, verify) ==
    LET v == ExactVerdict(inst, allocate(inst, st.s_high, shift(inst)), no_jit)
    IN  IF ~verify THEN [st EXCEPT !.pc = "phase1a"]
        ELSE IF v = "ValueError" THEN Raise(st, "ValueError")
        ELSE IF v = "ge" THEN Raise(st, "AssertionError: s* upper bound is violated")
        ELSE [st EXCEPT !.pc = "phase1a"]

\* the loop condition of lines 73 and 97
ScaleLoopCond(inst, st) == FGe(FSub(st.s_high, st.s_low), eps(inst))

\* line 76: the probe of an iteration of Phase 1a
Phase1aMid(st) == FDiv(FAdd(st.s_high, st.s_low), FromInt(2))

\* lines 79-82: the move of an iteration of Phase 1a on the verdict v
Phase1aMove(st, v) ==
    IF v = "lt" THEN [st EXCEPT !.s_high = Phase1aMid(st)]
    ELSE [st EXCEPT !.s_low = Phase1aMid(st)]

\* a faulty iteration of Phase 1a that moves the wrong end of the interval;
\* C9_SearchInvariantAmended does not hold with it
Phase1aIterSwapped(inst, st) ==
    LET s_mid == FDiv(FAdd(st.s_high, st.s_low), FromInt(2))
        t_mid == allocate(inst, s_mid, shift(inst))
        v == UpperBoundVerdict(inst, t_mid)
    IN  IF v = "ZeroDivisionError" THEN Raise(st, "ZeroDivisionError")
        ELSE IF v = "lt" THEN [st EXCEPT !.s_low = s_mid]
        ELSE [st EXCEPT !.s_high = s_mid]

\* lines 73-82, one iteration
Phase1aIter(inst, st) ==
    LET t_mid == allocate(inst, Phase1aMid(st), shift(inst))
        v == UpperBoundVerdict(inst, t_mid)
    IN  IF v = "ZeroDivisionError" THEN Raise(st, "ZeroDivisionError")
        ELSE Phase1aMove(st, v)

\* a faulty end of Phase 1a that restarts the exact search from the
\* initial s_high; C4_FullAtMostLinearHigh does not hold with it
Phase1aEndRestart(inst, st, linear) ==
    IF linear THEN [st EXCEPT !.pc = "border"]
    ELSE [st EXCEPT !.pc = "phase1b", !.speed = eps(inst), !.s_low = FromInt(0),
                    !.s_high = wr_upper_bound_s(inst)]

\* lines 87-96, after the loop of Phase 1a
Phase1aEnd(inst, st, linear) ==
    IF linear THEN [st EXCEPT !.pc = "border"]
    ELSE [st EXCEPT !.pc = "phase1b", !.speed = eps(inst), !.s_low = FromInt(0)]

\* line 100: whether an iteration of Phase 1b takes the accelerated probe
Phase1bAccel(st) == FLt(FMul(FromInt(2), st.speed), FSub(st.s_high, st.s_low))

\* lines 100-106: the probe of an iteration of Phase 1b
Phase1bMid(st) ==
    IF Phase1bAccel(st) THEN FSub(st.s_high, st.speed)
    ELSE FDiv(FAdd(st.s_high, st.s_low), FromInt(2))

\* line 103: speed after the probe is chosen
Phase1bSpeed(st) == IF Phase1bAccel(st) THEN FMul(st.speed, FromInt(2)) ELSE st.speed

\* lines 100-116: the move of an iteration of Phase 1b on the verdict v
Phase1bMove(st, v) ==
    IF v = "lt" THEN [st EXCEPT !.speed = Phase1bSpeed(st), !.s_high = Phase1bMid(st)]
    ELSE [st EXCEPT !.speed = Phase1bSpeed(st), !.s_low = Phase1bMid(st)]

\* lines 97-116, one iteration
Phase1bIter(inst, st, no_jit) ==
    LET t_mid == allocate(inst, Phase1bMid(st), shift(inst))
        v == ExactVerdict(inst, t_mid, no_jit)
    IN  IF v = "ValueError" THEN Raise([st EXCEPT !.speed = Phase1bSpeed(st)], "ValueError")
        ELSE Phase1bMove(st, v)

\* lines 121-133
Border(inst, st, no_jit, verify) ==
    LET t_low == allocate(inst, st.s_low, shift(inst))
        t_high == allocate(inst, st.s_high, shift(inst))
        border_set == SelectSeq([i \in 1..inst.n |-> i], LAMBDA i : t_low[i] # t_high[i])
        st1 == [st EXCEPT !.t_low = t_low, !.t_high = t_high, !.border_set = border_set]
        v == ExactVerdict(inst, t_high, no_jit)
    IN  IF \E k \in DOMAIN border_set : t_low[border_set[k]] # t_high[border_set[k]] - 1
        THEN Raise(st1, "AssertionError")
        ELSE IF verify /\ v = "ValueError" THEN Raise(st1, "ValueError")
        ELSE IF verify /\ v = "ge" THEN Raise(st1, "AssertionError: s* is too low")
        ELSE [st1 EXCEPT !.pc = "phase2a", !.k_low = 0, !.k_high = Len(border_set)]

\* the loop condition of lines 140 and 165
CutLoopCond(st) == st.k_high - st.k_low > 1

\* line 143: the probe of an iteration of Phase 2a
Phase2aMid(st) == (st.k_high + st.k_low) \div 2

\* lines 146-149: the move of an iteration of Phase 2a on the verdict v
Phase2aMove(st, v) ==
    IF v = "lt" THEN [st EXCEPT !.k_high = Phase2aMid(st)]
    ELSE [st EXCEPT !.k_low = Phase2aMid(st)]

\* lines 140-149, one iteration
Phase2aIter(inst, st) ==
    LET t_mid == Cut(st.t_low, st.t_high, st.border_set, Phase2aMid(st))
        v == UpperBoundVerdict(inst, t_mid)
    IN  IF v = "ZeroDivisionError" THEN Raise(st, "ZeroDivisionError")
        ELSE Phase2aMove(st, v)

\* a faulty end of Phase 2a that keeps the k_low of the coarse search;
\* C12_LocalMinimum does not hold with it
Phase2aEndKeep(st, linear) ==
    IF linear THEN [st EXCEPT !.pc = "final"]
    ELSE [st EXCEPT !.pc = "phase2b", !.speed = 1]

\* lines 154-164, after the loop of Phase 2a
Phase2aEnd(st, linear) ==
    IF linear THEN [st EXCEPT !.pc = "final"]
    ELSE [st EXCEPT !.pc = "phase2b", !.k_low = 0, !.speed = 1]

\* line 168: whether an iteration of Phase 2b takes the accelerated probe
Phase2bAccel(st) == 2 * st.speed < st.k_high - st.k_low

\* lines 168-174: the probe of an iteration of Phase 2b
Phase2bMid(st) ==
    IF Phase2bAccel(st) THEN st.k_high - st.speed ELSE (st.k_high + st.k_low) \div 2

\* line 171: speed after the probe is chosen
Phase2bSpeed(st) == IF Phase2bAccel(st) THEN st.speed * 2 ELSE st.speed

\* lines 168-184: the move of an iteration of Phase 2b on the verdict v
Phase2bMove(st, v) ==
    IF v = "lt" THEN [st EXCEPT !.speed = Phase2bSpeed(st), !.k_high = Phase2bMid(st)]
    ELSE [st EXCEPT !.speed = Phase2bSpeed(st), !.k_low = Phase2bMid(st)]

\* lines 165-184, one iteration
Phase2bIter(inst, st, no_jit) ==
    LET t_mid == Cut(st.t_low, st.t_high, st.border_set, Phase2bMid(st))
        v == ExactVerdict(inst, t_mid, no_jit)
    IN  IF v = "ValueError" THEN Raise([st EXCEPT !.speed = Phase2bSpeed(st)], "ValueError")
        ELSE Phase2bMove(st, v)

\* lines 189-196
Final(inst, st, no_jit, verify) ==
    LET t_best == Cut(st.t_low, st.t_high, st.border_set, st.k_high)
        st1 == [st EXCEPT !.t_best = t_best]
        v == ExactVerdict(inst, t_best, no_jit)
    IN  IF verify /\ v = "ValueError" THEN Raise(st1, "ValueError")
        ELSE IF verify /\ v = "ge" THEN Raise(st1, "AssertionError: k* is too low")
        ELSE IF verify /\ SumSeq(t_best) > wr_solution_upper_bound(inst)
             THEN Raise(st1, "AssertionError: Upper bound is violated")
        ELSE [st1 EXCEPT !.pc = "done"]

\* the next block of wr_solve from st
Step(inst, st, linear, no_jit, verify) ==
    CASE st.pc = "bound" -> VerifyBound(inst, st, no_jit, verify)
      [] st.pc = "phase1a" -> IF ScaleLoopCond(inst, st) THEN Phase1aIter(inst, st)
                              ELSE Phase1aEnd(inst, st, linear)
      [] st.pc = "phase1b" -> IF ScaleLoopCond(inst, st) THEN Phase1bIter(inst, st, no_jit)
                              ELSE [st EXCEPT !.pc = "border"]
      [] st.pc = "border" -> Border(inst, st, no_jit, verify)
      [] st.pc = "phase2a" -> IF CutLoopCond(st) THEN Phase2aIter(inst, st)
                              ELSE Phase2aEnd(st, linear)
      [] st.pc = "phase2b" -> IF CutLoopCond(st) THEN Phase2bIter(inst, st, no_jit)
                              ELSE [st EXCEPT !.pc = "final"]
      [] st.pc = "final" -> Final(inst, st, no_jit, verify)

RECURSIVE RunFrom(_, _, _, _, _)
RunFrom(inst, st, linear, no_jit, verify) ==
    IF st.pc \in {"done", "error"} THEN st
    ELSE RunFrom(inst, Step(inst, st, linear, no_jit, verify), linear, no_jit, verify)

\* the call as a whole: the locals at the return (pc = "done", the result
\* in t_best) or at the exception (pc = "error")
wr_solve(inst, linear, no_jit, verify) == RunFrom(inst, Enter(inst), linear, no_jit, verify)

wq_solve(inst, linear, no_jit, verify) == wr_solve(to_wr(inst), linear, no_jit, verify)

solve(inst, linear, no_jit, verify) ==
    IF inst.kind = "WQ" THEN wq_solve(inst, linear, no_jit, verify)
    ELSE wr_solve(inst, linear, no_jit, verify)

(***************************************************************************)
(* The state: one call of solve (inst, linear, no_jit, verify and the      *)
(* locals st of wr_solve), one call of knapsack (query, result), one run   *)
(* of main (args, run).  A specification uses one of the three groups and  *)
(* leaves the others idle.                                                 *)
(***************************************************************************)
VARIABLES inst, linear, no_jit, verify, st, query, result, args, run

vars == <<inst, linear, no_jit, verify, st, query, result, args, run>>
solveVars == <<inst, linear, no_jit, verify, st>>
knapsackVars == <<query, result>>
mainVars == <<args, run>>

RECURSIVE SeqsUpTo(_, _)
\* the sequences over S of length 1..n
SeqsUpTo(S, n) ==
    IF n = 0 THEN {}
    ELSE SeqsUpTo(S, n - 1) \cup [1..n -> S]

Thresholds == {Fraction(a, b) : a \in 0..MaxDen, b \in 1..MaxDen} \cap
              {x \in (0..MaxDen) \X (1..MaxDen) : x[1] <= x[2]}

\* integer weight vectors of the data model: non-negative, one positive
WeightVectors == {w \in SeqsUpTo(0..MaxW, MaxN) : \E i \in DOMAIN w : w[i] > 0}

\* instances beyond the bounds, found by running the solver: on the first
\* the allocation exceeds the upper bound; on the second the full mode
\* allocates more than the linear mode; on the third an exact search over
\* the whole initial interval ends above the s_high of Phase 1a
ExtraInstances ==
    {WeightRestriction(<<1, 1, 2>>, Fraction(2, 3), Fraction(1, 1)),
     WeightRestriction(<<2, 2, 4, 3, 2>>, Fraction(1, 3), Fraction(3, 5)),
     WeightRestriction(<<1, 2, 3>>, Fraction(1, 3), Fraction(1, 2))}

\* pairs of thresholds x < y
ThresholdPairs == {p \in Thresholds \X Thresholds : FLt(p[1], p[2])}

Instances ==
    {WeightRestriction(w, p[1], p[2]) : w \in WeightVectors, p \in ThresholdPairs}
    \cup {WeightQualification(w, p[2], p[1]) : w \in WeightVectors, p \in ThresholdPairs}
    \cup ExtraInstances

\* the instance wr_solve works on: solve hands a WQ instance to wq_solve,
\* which converts it
WrInst == IF inst.kind = "WQ" THEN to_wr(inst) ELSE inst

Idle == [pc |-> "idle"]

InitSolve ==
    /\ inst \in Instances
    /\ linear \in BOOLEAN
    /\ no_jit \in BOOLEAN
    /\ verify \in BOOLEAN
    /\ st = [pc |-> "solve"]

IdleSolve == inst = None /\ linear = FALSE /\ no_jit = FALSE /\ verify = FALSE /\ st = Idle
IdleKnapsack == query = None /\ result = None
IdleMain == args = None /\ run = Idle

Init == InitSolve /\ IdleKnapsack /\ IdleMain

\* solve, wq_solve and lines 53-62 of wr_solve
SolveCall ==
    /\ st.pc = "solve"
    /\ st' = Enter(WrInst)
    /\ UNCHANGED <<inst, linear, no_jit, verify, query, result, args, run>>

VerifyBoundStep ==
    /\ st.pc = "bound"
    /\ st' = VerifyBound(WrInst, st, no_jit, verify)
    /\ UNCHANGED <<inst, linear, no_jit, verify, query, result, args, run>>

Phase1aStep ==
    /\ st.pc = "phase1a" /\ ScaleLoopCond(WrInst, st)
    /\ st' = Phase1aIter(WrInst, st)
    /\ UNCHANGED <<inst, linear, no_jit, verify, query, result, args, run>>

Phase1aExit ==
    /\ st.pc = "phase1a" /\ ~ScaleLoopCond(WrInst, st)
    /\ st' = Phase1aEnd(WrInst, st, linear)
    /\ UNCHANGED <<inst, linear, no_jit, verify, query, result, args, run>>

Phase1bStep ==
    /\ st.pc = "phase1b" /\ ScaleLoopCond(WrInst, st)
    /\ st' = Phase1bIter(WrInst, st, no_jit)
    /\ UNCHANGED <<inst, linear, no_jit, verify, query, result, args, run>>

Phase1bExit ==
    /\ st.pc = "phase1b" /\ ~ScaleLoopCond(WrInst, st)
    /\ st' = [st EXCEPT !.pc = "border"]
    /\ UNCHANGED <<inst, linear, no_jit, verify, query, result, args, run>>

BorderStep ==
    /\ st.pc = "border"
    /\ st' = Border(WrInst, st, no_jit, verify)
    /\ UNCHANGED <<inst, linear, no_jit, verify, query, result, args, run>>

Phase2aStep ==
    /\ st.pc = "phase2a" /\ CutLoopCond(st)
    /\ st' = Phase2aIter(WrInst, st)
    /\ UNCHANGED <<inst, linear, no_jit, verify, query, result, args, run>>

Phase2aExit ==
    /\ st.pc = "phase2a" /\ ~CutLoopCond(st)
    /\ st' = Phase2aEnd(st, linear)
    /\ UNCHANGED <<inst, linear, no_jit, verify, query, result, args, run>>

Phase2bStep ==
    /\ st.pc = "phase2b" /\ CutLoopCond(st)
    /\ st' = Phase2bIter(WrInst, st, no_jit)
    /\ UNCHANGED <<inst, linear, no_jit, verify, query, result, args, run>>

Phase2bExit ==
    /\ st.pc = "phase2b" /\ ~CutLoopCond(st)
    /\ st' = [st EXCEPT !.pc = "final"]
    /\ UNCHANGED <<inst, linear, no_jit, verify, query, result, args, run>>

FinalStep ==
    /\ st.pc = "final"
    /\ st' = Final(WrInst, st, no_jit, verify)
    /\ UNCHANGED <<inst, linear, no_jit, verify, query, result, args, run>>

Next ==
    \/ SolveCall
    \/ VerifyBoundStep
    \/ Phase1aStep
    \/ Phase1aExit
    \/ Phase1bStep
    \/ Phase1bExit
    \/ BorderStep
    \/ Phase2aStep
    \/ Phase2aExit
    \/ Phase2bStep
    \/ Phase2bExit
    \/ FinalStep

Spec == Init /\ [][Next]_vars

(***************************************************************************)
(* The WR and WQ properties, by enumeration of the coalitions.             *)
(***************************************************************************)
RECURSIVE SetSum(_, _)
SetSum(f, S) ==
    IF S = {} THEN 0
    ELSE LET i == CHOOSE x \in S : TRUE IN f[i] + SetSum(f, S \ {i})

\* no coalition of weight <= ceil(tw * W) - 1 holds tn of the tickets or more
WRValid(wr, t) ==
    \A S \in SUBSET (1..wr.n) :
        SetSum(wr.weights, S) <= ceil(wr.threshold_weight) - 1
            => ~FGe(FromInt(SetSum(t, S)), FMul(wr.tn, FromInt(SumSeq(t))))

\* every coalition of weight > tw * W holds more than tn of the tickets
WQValid(wq, t) ==
    \A S \in SUBSET (1..wq.n) :
        FLt(wq.threshold_weight, FromInt(SetSum(wq.weights, S)))
            => FLt(FMul(wq.tn, FromInt(SumSeq(t))), FromInt(SetSum(t, S)))

Returned == st.pc = "done"
Raised == st.pc = "error"
InScaleSearch == st.pc \in {"bound", "phase1a", "phase1b", "border"}
t_at(s) == allocate(WrInst, s, shift(WrInst))

\* positive weights and alpha_w > 0
Regular == WrInst.tw[1] > 0 /\ \A i \in 1..WrInst.n : WrInst.weights[i] > 0

\* the same call in linear mode, without the debug assertions
LinearRun == wr_solve(WrInst, TRUE, no_jit, FALSE)

(***************************************************************************)
(* C1: for every WR instance of the data model and both modes, wr_solve    *)
(* returns an allocation, and the allocation is WR-valid by enumeration.   *)
(* Stated for calls without the debug assertions.  Violated: a zero weight *)
(* makes knapsack_upper_bound divide by zero, and alpha_w = 0 makes the    *)
(* exact oracle take max() of an empty list.                               *)
(***************************************************************************)
C1_ReturnsValid ==
    ~verify => /\ ~Raised
               /\ Returned => WRValid(WrInst, st.t_best)

(***************************************************************************)
(* C2: for every WQ instance with beta_n < beta_w, solve returns what      *)
(* wr_solve returns for the WR instance (1 - beta_w, 1 - beta_n) on the    *)
(* same weights, and every coalition of weight > beta_w * W holds more     *)
(* than beta_n of the tickets.  Violated by the exceptions of C1.          *)
(***************************************************************************)
C2_WQSolved ==
    (inst.kind = "WQ" /\ ~verify) =>
        /\ ~Raised
        /\ Returned =>
            /\ st.t_best = wr_solve(to_wr(inst), linear, no_jit, verify).t_best
            /\ WQValid(inst, st.t_best)

(***************************************************************************)
(* C3: in both modes the returned allocation has at most                   *)
(* ceil(alpha_w (1 - alpha_w) n / (alpha_n - alpha_w)) tickets, and with   *)
(* verify the assertion "Upper bound is violated" never fires.  Stated for  *)
(* positive weights and alpha_w > 0, where C1's exceptions do not arise.   *)
(* Violated.                                                               *)
(***************************************************************************)
C3_UpperBound ==
    Regular =>
        /\ Returned => SumSeq(st.t_best) <= wr_solution_upper_bound(WrInst)
        /\ Raised => st.err # "AssertionError: Upper bound is violated"

(***************************************************************************)
(* C4 as claimed: on the same instance the full mode allocates at most as  *)
(* many tickets as the linear mode.  Violated.                             *)
(***************************************************************************)
C4_FullAtMostLinear ==
    (Returned /\ ~linear) => SumSeq(st.t_best) <= SumSeq(LinearRun.t_best)

(***************************************************************************)
(* C4 amended: the allocation of the full mode is, party by party, at most *)
(* t_high of the linear mode (the allocation at the scale s_high that      *)
(* Phase 1a ends with), so its total is at most the total of that t_high.  *)
(***************************************************************************)
C4_FullAtMostLinearHigh ==
    (Returned /\ ~linear) =>
        \A lin \in {LinearRun} :
            /\ lin.pc = "done"
            /\ \A i \in 1..WrInst.n : st.t_best[i] <= lin.t_high[i]
            /\ SumSeq(st.t_best) <= SumSeq(lin.t_high)

\* the full mode has returned more tickets than the linear mode does
C4_Witness ==
    Returned /\ ~linear /\ SumSeq(st.t_best) > SumSeq(LinearRun.t_best)

C10_BorderInvariant ==
    /\ st.pc \in {"phase2a", "phase2b", "final", "done"} =>
        /\ \A i \in 1..WrInst.n :
              IF \E k \in DOMAIN st.border_set : st.border_set[k] = i
              THEN st.t_high[i] = st.t_low[i] + 1
              ELSE st.t_high[i] = st.t_low[i]
        /\ FLt(FSub(st.s_high, st.s_low), Fraction(1, MaxSeq(WrInst.weights)))
    /\ Raised => st.err # "AssertionError"

\* Phase 2 entered with a border set of two parties or more
C10_Witness == st.pc = "phase2a" /\ Len(st.border_set) >= 2

\* the exact validator, as line 191 calls it, on the cut at k
CutValid(k) == ExactVerdict(WrInst, Cut(st.t_low, st.t_high, st.border_set, k), no_jit) = "lt"

Verdicts == {"lt", "ge"}

\* one iteration of a loop: when the oracle raises, the iteration ends as in
\* the code, by the exception; when it returns, the verdict is v
Phase1aOutcome(wr, call, v) ==
    IF ZeroWeight(wr.weights) THEN Raise(call, "ZeroDivisionError") ELSE Phase1aMove(call, v)
Phase1bOutcome(wr, call, v) ==
    IF MaxOfEmpty(Wide(threshold_weight_non_strict(wr)))
    THEN Raise([call EXCEPT !.speed = Phase1bSpeed(call)], "ValueError")
    ELSE Phase1bMove(call, v)
Phase2aOutcome(wr, call, v) ==
    IF ZeroWeight(wr.weights) THEN Raise(call, "ZeroDivisionError") ELSE Phase2aMove(call, v)
Phase2bOutcome(wr, call, v) ==
    IF MaxOfEmpty(Wide(threshold_weight_non_strict(wr)))
    THEN Raise([call EXCEPT !.speed = Phase2bSpeed(call)], "ValueError")
    ELSE Phase2bMove(call, v)

\* every iteration of a call, computed with the oracles, is one of the
\* outcomes above
OutcomesAgree ==
    /\ (st.pc = "phase1a" /\ ScaleLoopCond(WrInst, st)) =>
           \E v \in Verdicts : Phase1aIter(WrInst, st) = Phase1aOutcome(WrInst, st, v)
    /\ (st.pc = "phase1b" /\ ScaleLoopCond(WrInst, st)) =>
           \E v \in Verdicts : Phase1bIter(WrInst, st, no_jit) = Phase1bOutcome(WrInst, st, v)
    /\ (st.pc = "phase2a" /\ CutLoopCond(st)) =>
           \E v \in Verdicts : Phase2aIter(WrInst, st) = Phase2aOutcome(WrInst, st, v)
    /\ (st.pc = "phase2b" /\ CutLoopCond(st)) =>
           \E v \in Verdicts : Phase2bIter(WrInst, st, no_jit) = Phase2bOutcome(WrInst, st, v)

InitSearch ==
    /\ inst \in {i \in Instances : i.kind = "WR"}
    /\ linear \in BOOLEAN
    /\ no_jit = TRUE
    /\ verify = FALSE
    /\ st = Enter(inst)
    /\ IdleKnapsack
    /\ IdleMain

Phase1aAny ==
    /\ st.pc = "phase1a" /\ ScaleLoopCond(WrInst, st)
    /\ \E v \in Verdicts : st' = Phase1aOutcome(WrInst, st, v)
    /\ UNCHANGED <<inst, linear, no_jit, verify, query, result, args, run>>

Phase1bAny ==
    /\ st.pc = "phase1b" /\ ScaleLoopCond(WrInst, st)
    /\ \E v \in Verdicts : st' = Phase1bOutcome(WrInst, st, v)
    /\ UNCHANGED <<inst, linear, no_jit, verify, query, result, args, run>>

Phase2aAny ==
    /\ st.pc = "phase2a" /\ CutLoopCond(st)
    /\ \E v \in Verdicts : st' = Phase2aOutcome(WrInst, st, v)
    /\ UNCHANGED <<inst, linear, no_jit, verify, query, result, args, run>>

Phase2bAny ==
    /\ st.pc = "phase2b" /\ CutLoopCond(st)
    /\ \E v \in Verdicts : st' = Phase2bOutcome(WrInst, st, v)
    /\ UNCHANGED <<inst, linear, no_jit, verify, query, result, args, run>>

NextSearch ==
    \/ VerifyBoundStep
    \/ Phase1aAny
    \/ Phase1aExit
    \/ Phase1bAny
    \/ Phase1bExit
    \/ BorderStep
    \/ Phase2aAny
    \/ Phase2aExit
    \/ Phase2bAny
    \/ Phase2bExit
    \/ FinalStep

\* the position of the call and the interval its loop works on; every step
\* of the call changes it
SearchPos ==
    IF Pos(st) \in {"phase1a", "phase1b"} THEN <<Pos(st), st.s_low, st.s_high>>
    ELSE IF Pos(st) \in {"phase2a", "phase2b"} THEN <<Pos(st), st.k_low, st.k_high>>
    ELSE <<Pos(st)>>

\* the call is a sequential program: a step that can run does run
SpecSearch == InitSearch /\ [][NextSearch]_vars /\ WF_SearchPos(NextSearch)

InScaleLoop == st.pc \in {"phase1a", "phase1b"} /\ ScaleLoopCond(WrInst, st)
InCutLoop == st.pc \in {"phase2a", "phase2b"} /\ CutLoopCond(st)

\* the probe of the iteration about to run
ScaleProbe == IF st.pc = "phase1a" THEN Phase1aMid(st) ELSE Phase1bMid(st)
CutProbe == IF st.pc = "phase2a" THEN Phase2aMid(st) ELSE Phase2bMid(st)

\* every probe lies strictly between low and high; the accelerated probe
\* is high - speed and is taken only when 2 * speed < high - low
ProbeInside ==
    /\ InScaleLoop => /\ FLt(st.s_low, ScaleProbe) /\ FLt(ScaleProbe, st.s_high)
                      /\ (st.pc = "phase1b" /\ ScaleProbe = FSub(st.s_high, st.speed)
                              /\ ScaleProbe # Phase1aMid(st))
                            => FLt(FMul(FromInt(2), st.speed), FSub(st.s_high, st.s_low))
    /\ InCutLoop => /\ st.k_low < CutProbe /\ CutProbe < st.k_high
                    /\ (st.pc = "phase2b" /\ CutProbe = st.k_high - st.speed
                            /\ CutProbe # Phase2aMid(st))
                          => 2 * st.speed < st.k_high - st.k_low

\* 0 <= k_low <= k_high <= |B| throughout Phase 2
CutRange ==
    st.pc \in {"phase2a", "phase2b", "final", "done"} =>
        0 <= st.k_low /\ st.k_low <= st.k_high /\ st.k_high <= Len(st.border_set)

\* an iteration narrows the interval: high - low decreases strictly, low
\* does not decrease, high does not increase
Narrows ==
    /\ (st.pc \in {"phase1a", "phase1b"} /\ st'.pc = st.pc) =>
            /\ FLt(FSub(st'.s_high, st'.s_low), FSub(st.s_high, st.s_low))
            /\ FLe(st.s_low, st'.s_low)
            /\ FLe(st'.s_high, st.s_high)
    /\ (st.pc \in {"phase2a", "phase2b"} /\ st'.pc = st.pc) =>
            /\ st'.k_high - st'.k_low < st.k_high - st.k_low
            /\ st.k_low <= st'.k_low
            /\ st'.k_high <= st.k_high

\* the call has returned, with both loops' exit conditions met
SearchDone ==
    IF st.pc = "done" THEN ~ScaleLoopCond(WrInst, st) /\ ~CutLoopCond(st) ELSE FALSE

(***************************************************************************)
(* C11: under any sequence of valid / not valid verdicts, every probe of   *)
(* the four loops lies strictly between low and high (the accelerated      *)
(* probe high - speed is taken only when 2 * speed < high - low), every    *)
(* iteration decreases high - low strictly, never decreases low and never  *)
(* increases high, 0 <= k_low <= k_high <= |B| holds throughout Phase 2,   *)
(* and the loops always reach s_high - s_low < eps and k_high - k_low <= 1.*)
(* Violated by the exceptions of C1: with a zero weight the first          *)
(* iteration of Phase 1a raises ZeroDivisionError, with alpha_w = 0 the    *)
(* first exact iteration raises ValueError, and the loop is left before    *)
(* its exit condition is met.                                              *)
(***************************************************************************)
C11_SearchTerminates ==
    /\ [](ProbeInside /\ CutRange)
    /\ [][Narrows]_SearchPos
    /\ <>SearchDone

\* the call is over: it has returned with both exit conditions met, or an
\* oracle has raised
SearchOver ==
    IF st.pc = "error" THEN st.err \in {"ZeroDivisionError", "ValueError"} ELSE SearchDone

\* the part of C11 that holds: the probes, the narrowing and the range of
\* the cut in every call; every call ends, by a return with both exit
\* conditions met or by an exception of an oracle; and an oracle raises
\* only on a zero weight or on alpha_w = 0
SearchTerminatesOrRaises ==
    /\ [](ProbeInside /\ CutRange)
    /\ [][Narrows]_SearchPos
    /\ [](Raised => ~Regular)
    /\ <>SearchOver

(***************************************************************************)
(* One call of knapsack.  The queries are the small ones (every number     *)
(* within the bounds) and the wide ones, whose weights and capacity lie    *)
(* around MAX_INT_64.                                                      *)
(***************************************************************************)
SmallQueries ==
    {[weights |-> WideSeq(x[1]), profits |-> x[2], capacity |-> Wide(c), upper_bound |-> u, no_jit |-> j] :
        x \in {y \in SeqsUpTo(0..MaxItemValue, MaxItems) \X SeqsUpTo(0..MaxItemValue, MaxItems) :
                  Len(y[1]) = Len(y[2])},
        c \in 0..MaxCapacity, u \in 0..MaxUpperBound, j \in BOOLEAN}

WideValues == {Wide(1), <<1, -1>>, <<1, 0>>, <<1, 1>>}

WideQueries ==
    {[weights |-> x[1], profits |-> x[2], capacity |-> c, upper_bound |-> u, no_jit |-> j] :
        x \in {y \in SeqsUpTo(WideValues, 2) \X SeqsUpTo(1..2, 2) : Len(y[1]) = Len(y[2])},
        c \in WideValues \cup {Wide(0), <<2, 0>>}, u \in 0..MaxUpperBound, j \in BOOLEAN}

InitKnapsack ==
    /\ query \in SmallQueries \cup WideQueries
    /\ result = [pc |-> "called"]
    /\ IdleSolve
    /\ IdleMain

KnapsackCall ==
    /\ result.pc = "called"
    /\ LET r == knapsack(query.weights, query.profits, query.capacity, query.upper_bound, query.no_jit)
       IN  result' = IF r = ValueError THEN [pc |-> "raised", exc |-> "ValueError"]
                     ELSE [pc |-> "returned", value |-> r]
    /\ UNCHANGED <<query, inst, linear, no_jit, verify, st, args, run>>

NextKnapsack == KnapsackCall

SpecKnapsack == InitKnapsack /\ [][NextKnapsack]_vars

\* the sum of an integer sequence over a set of indices, as a Wide number
RECURSIVE WSetSum(_, _)
WSetSum(f, S) ==
    IF S = {} THEN Wide(0)
    ELSE LET i == CHOOSE x \in S : TRUE IN WAdd(f[i], WSetSum(f, S \ {i}))

\* the best profit of a subset of the items that fits the capacity
BestProfit(q) ==
    MaxSet({SetSum(q.profits, S) : S \in {T \in SUBSET (DOMAIN q.weights) :
                                             WLe(WSetSum(q.weights, T), q.capacity)}})

\* what the contract of knapsack allows as the result r of query q
MeetsContract(q, r) ==
    LET M == BestProfit(q)
    IN  /\ IF M <= q.upper_bound THEN r = M
           ELSE q.upper_bound < r /\ r <= SumSeq(q.profits)
        /\ \A T \in 0..(q.upper_bound + 1) : (r < T) <=> (M < T)

(***************************************************************************)
(* C6: a knapsack query with n >= 1, non-negative weights and profits,     *)
(* capacity C >= 0 and cap U >= 0 returns the best profit M of a subset    *)
(* that fits if M <= U, and some r with U < r <= sum(p) if M > U; so r < T *)
(* agrees with M < T for every T <= U + 1.  Violated for the capacities    *)
(* >= MAX_INT_64, on every backend, by the sentinel of C8.                 *)
(***************************************************************************)
C6_KnapsackContract ==
    result.pc # "called" =>
        /\ result.pc = "returned"
        /\ MeetsContract(query, result.value)

\* the part of C6 that holds: the contract for the capacities below
\* MAX_INT_64, whatever the weights
ContractBelowSentinel ==
    (result.pc # "called" /\ WLt(query.capacity, MAX_INT_64)) =>
        /\ result.pc = "returned"
        /\ MeetsContract(query, result.value)

(***************************************************************************)
(* C8: a query that takes the arbitrary-precision path because             *)
(* sum(weights), sum(profits) or the capacity exceeds MAX_INT_64 returns   *)
(* what the contract prescribes, also for a capacity or a weight           *)
(* >= MAX_INT_64.  Violated: dp uses MAX_INT_64 as infinity, so with a     *)
(* capacity >= MAX_INT_64 every profit up to U + 1 looks attainable.       *)
(***************************************************************************)
C8_FallbackContract ==
    (result.pc # "called"
        /\ Backend(query.weights, query.profits, query.capacity, query.no_jit) = "python-fallback") =>
        /\ result.pc = "returned"
        /\ MeetsContract(query, result.value)

(***************************************************************************)
(* main.py, from the parsed arguments on.  args holds the subcommand       *)
(* (problem), the parsed weights (Fractions), --tw, --tn and the flags;    *)
(* run holds the locals of main and its position.                          *)
(***************************************************************************)
Numerators(ws) == [i \in DOMAIN ws |-> ws[i][1]]
Denominators(ws) == [i \in DOMAIN ws |-> ws[i][2]]

\* lines 102-105: the weights as integers; "// numerator_gcd" raises
\* ZeroDivisionError when there are weights and all are zero
NormalizeRaises(weights) == weights # <<>> /\ gcd(Numerators(weights)) = 0

\* "w * denominator_lcm // numerator_gcd" is the floor of the quotient
Normalize(weights, tw, tn) ==
    LET denominator_lcm == lcm(Denominators(weights \o <<tw, tn>>))
        numerator_gcd == gcd(Numerators(weights))
    IN  [i \in DOMAIN weights |->
            floor(FDiv(FMul(weights[i], FromInt(denominator_lcm)), FromInt(numerator_gcd)))]

MainStart == [pc |-> "parsed", weights |-> None, inst |-> None, solution |-> None,
              output |-> <<>>, exit |-> None]

\* lines 102-105
MainNormalize(a, r) ==
    IF NormalizeRaises(a.weights) THEN [r EXCEPT !.pc = "crashed", !.exit = "ZeroDivisionError"]
    ELSE [r EXCEPT !.pc = "normalized", !.weights = Normalize(a.weights, a.tw, a.tn)]

\* lines 107-118
MainInstance(a, r) ==
    IF a.problem = "wr"
    THEN IF FGe(a.tw, a.tn) THEN [r EXCEPT !.pc = "exited", !.exit = 1]
         ELSE [r EXCEPT !.pc = "instance", !.inst = WeightRestriction(r.weights, a.tw, a.tn)]
    ELSE IF FLe(a.tw, a.tn) THEN [r EXCEPT !.pc = "exited", !.exit = 1]
         ELSE [r EXCEPT !.pc = "instance", !.inst = WeightQualification(r.weights, a.tw, a.tn)]

\* lines 124-125
MainSolve(a, r) ==
    LET res == solve(r.inst, a.linear, a.no_jit, a.debug)
    IN  IF res.pc = "error" THEN [r EXCEPT !.pc = "crashed", !.exit = res.err]
        ELSE [r EXCEPT !.pc = "solved", !.solution = res.t_best]

\* lines 130-133
MainPrint(a, r) ==
    [r EXCEPT !.pc = "printed", !.exit = 0,
              !.output = IF a.sum_only THEN <<SumSeq(r.solution)>> ELSE r.solution]

MainStep(a, r) ==
    CASE r.pc = "parsed" -> MainNormalize(a, r)
      [] r.pc = "normalized" -> MainInstance(a, r)
      [] r.pc = "instance" -> MainSolve(a, r)
      [] r.pc = "solved" -> MainPrint(a, r)

RECURSIVE MainFrom(_, _)
MainFrom(a, r) ==
    IF r.pc \in {"printed", "exited", "crashed"} THEN r ELSE MainFrom(a, MainStep(a, r))

\* a whole run of main
main(a) == MainFrom(a, MainStart)

\* the inputs: weights a/b, thresholds, flags; and the scenarios S1, S2
RationalWeights == {Fraction(a, b) : a \in 0..MaxNum, b \in 1..MaxWeightDen}

Args(problem, weights, tw, tn, lin, sum_only) ==
    [problem |-> problem, weights |-> weights, tw |-> tw, tn |-> tn,
     linear |-> lin, no_jit |-> FALSE, debug |-> FALSE, sum_only |-> sum_only]

IntWeights(ws) == [i \in DOMAIN ws |-> FromInt(ws[i])]

S1 == Args("wr", IntWeights(<<1, 1, 1, 1, 1>>), Fraction(1, 5), Fraction(2, 5), FALSE, FALSE)
S2 == Args("wr", IntWeights(<<10, 10, 10, 10, 10>>), Fraction(1, 5), Fraction(2, 5), FALSE, FALSE)

\* an input beyond the bounds on which the output of the solver depends on
\* the scale of the integer weights it is given
ExtraInputs == {Args("wr", IntWeights(<<1, 2>>), Fraction(1, 2), Fraction(2, 3), TRUE, FALSE)}

MainInputs ==
    {Args(p, w, t[1], t[2], l, so) :
        p \in {"wr", "wq"}, w \in SeqsUpTo(RationalWeights, MaxMainN),
        t \in Thresholds \X Thresholds, l \in BOOLEAN, so \in BOOLEAN}
    \cup {S1, S2} \cup ExtraInputs

InitMain ==
    /\ args \in MainInputs
    /\ run = MainStart
    /\ IdleSolve
    /\ IdleKnapsack

NormalizeStep ==
    /\ run.pc = "parsed"
    /\ run' = MainNormalize(args, run)
    /\ UNCHANGED <<args, inst, linear, no_jit, verify, st, query, result>>

InstanceStep ==
    /\ run.pc = "normalized"
    /\ run' = MainInstance(args, run)
    /\ UNCHANGED <<args, inst, linear, no_jit, verify, st, query, result>>

SolveStep ==
    /\ run.pc = "instance"
    /\ run' = MainSolve(args, run)
    /\ UNCHANGED <<args, inst, linear, no_jit, verify, st, query, result>>

PrintStep ==
    /\ run.pc = "solved"
    /\ run' = MainPrint(args, run)
    /\ UNCHANGED <<args, inst, linear, no_jit, verify, st, query, result>>

NextMain ==
    \/ NormalizeStep
    \/ InstanceStep
    \/ SolveStep
    \/ PrintStep

SpecMain == InitMain /\ [][NextMain]_vars

\* the same command line with every weight multiplied by c
Scaled(a, c) == [a EXCEPT !.weights = [i \in DOMAIN a.weights |-> FMul(a.weights[i], c)]]

\* what the user sees of a run: how it ended and what it printed
Outcome(r) == <<r.pc, r.output>>

Scales == {Fraction(a, b) : a \in 1..MaxScale, b \in 1..MaxScale}

IsIntWeights(a) == \A i \in DOMAIN a.weights : a.weights[i][2] = 1

(***************************************************************************)
(* C5: for rational weights w, a positive rational c, fixed thresholds and *)
(* mode, main prints the same ticket vector for c * w as for w.  Violated: *)
(* main divides by the gcd of the numerators of the weights as given, not  *)
(* of the numerators after the multiplication by the lcm, so the integer   *)
(* weights handed to the solver keep a factor that depends on c.           *)
(***************************************************************************)
C5_ScaleInvariant ==
    (run.pc = "printed" /\ ~args.sum_only) =>
        \A c \in Scales : Outcome(main(Scaled(args, c))) = Outcome(run)

\* integer weights divided by their gcd
Primitive(ws) == [i \in DOMAIN ws |-> ws[i] \div gcd(ws)]

\* what main keeps of C5: the integer weights it computes for c * w and for
\* w are proportional, they differ only by the common factor left in them
NormalizeProportional ==
    (run.pc = "printed") =>
        \A c \in Scales :
            Primitive(Normalize(Scaled(args, c).weights, args.tw, args.tn)) = Primitive(run.weights)

\* within integer weights the division by the gcd of the numerators removes
\* c: main prints for c * w what it prints for w
IntegerScaleInvariant ==
    (run.pc = "printed" /\ IsIntWeights(args)) =>
        \A c \in Scales :
            IsIntWeights(Scaled(args, c)) => Outcome(main(Scaled(args, c))) = Outcome(run)

(***************************************************************************)
(* C7 as claimed (scenario S1): wr in full mode on the weights 1 1 1 1 1   *)
(* with tw = 1/5 and tn = 2/5 prints 1 1 1 1 1.  Violated.                 *)
(***************************************************************************)
C7_ScenarioS1 ==
    (args = S1 /\ run.pc \in {"printed", "exited", "crashed"}) =>
        Outcome(run) = <<"printed", <<1, 1, 1, 1, 1>>>>

(***************************************************************************)
(* C7 amended: wr in full mode on the weights 1 1 1 1 1 with tw = 1/5 and  *)
(* tn = 2/5 prints 1 0 0 0 0 (which is WR-valid: no single party stays     *)
(* below a fifth of the weight).                                           *)
(***************************************************************************)
C7_ScenarioS1Amended ==
    (args = S1 /\ run.pc \in {"printed", "exited", "crashed"}) =>
        /\ Outcome(run) = <<"printed", <<1, 0, 0, 0, 0>>>>
        /\ run.weights = <<5, 5, 5, 5, 5>>
        /\ WRValid(run.inst, run.output)

C7_Witness == args = S1 /\ run.pc = "printed"

====
